---- MODULE Spec2Model ----
(***************************************************************************)
(* Model of bot/server.go: the subscription bot of argocd-notifications.   *)
(* Strings are sequences of one-character strings, so that joining and     *)
(* splitting on "," are computed and not assumed.                          *)
(***************************************************************************)
EXTENDS Integers, Sequences, FiniteSets, TLC

(* ----------------------------- bounds ---------------------------------- *)
\* commands the server executes in one behaviour
MaxCmds == 2
\* calls of the pure functions in one behaviour of PureSpec
MaxOps == 2

(* ----------------------------- strings --------------------------------- *)
EmptyStr == <<>>
Comma == ","

\* recipients.AnnotationKey, the base annotation key, as one symbol
AnnotationKey == <<"K">>

\* fmt.Sprintf with its two arguments exchanged: "<base>.<trigger>"
AnnotationKeyForSwapped(trigger) ==
    IF trigger # EmptyStr THEN AnnotationKey \o <<".">> \o trigger ELSE AnnotationKey

\* fmt.Sprintf("%s.%s", trigger, annotationKey), server.go:84-87
AnnotationKeyFor(trigger) ==
    IF trigger # EmptyStr THEN trigger \o <<".">> \o AnnotationKey ELSE AnnotationKey

RECURSIVE Join(_, _)
\* strings.Join(items, sep)
Join(items, sep) ==
    IF items = <<>> THEN EmptyStr
    ELSE IF Len(items) = 1 THEN items[1]
    ELSE items[1] \o <<sep>> \o Join(Tail(items), sep)

RECURSIVE SplitFrom(_, _, _)
\* the fields of s from position i on, cur being the field read so far
SplitFrom(s, i, cur) ==
    IF i > Len(s) THEN <<cur>>
    ELSE IF s[i] = Comma THEN <<cur>> \o SplitFrom(s, i + 1, EmptyStr)
    ELSE SplitFrom(s, i + 1, Append(cur, s[i]))

\* recipients.ParseRecipients: splits on comma, the empty value is the empty list
ParseRecipients(value) ==
    IF value = EmptyStr THEN <<>> ELSE SplitFrom(value, 1, EmptyStr)

\* position of the first c in s, 0 when there is none
FirstPos(s, c) ==
    IF \E i \in 1..Len(s) : s[i] = c
    THEN CHOOSE i \in 1..Len(s) : s[i] = c /\ \A j \in 1..(i - 1) : s[j] # c
    ELSE 0

\* recipients.ParseDestinationAndTemplate: "service:address?template"
ParseDestinationAndTemplate(recipient) ==
    LET q == FirstPos(recipient, "?")
        destPart == IF q = 0 THEN recipient ELSE SubSeq(recipient, 1, q - 1)
        template == IF q = 0 THEN EmptyStr ELSE SubSeq(recipient, q + 1, Len(recipient))
        c == FirstPos(destPart, ":")
    IN  IF c = 0
        THEN [ok |-> FALSE, dest |-> [service |-> EmptyStr, address |-> EmptyStr],
              template |-> EmptyStr]
        ELSE [ok |-> TRUE,
              dest |-> [service |-> SubSeq(destPart, 1, c - 1),
                        address |-> SubSeq(destPart, c + 1, Len(destPart))],
              template |-> template]

\* a key that holds a recipient list: the base key or "<trigger>.<base>"
IsSubscriptionKey(k) ==
    \/ k = AnnotationKey
    \/ /\ Len(k) > Len(AnnotationKey) + 1
       /\ SubSeq(k, Len(k) - Len(AnnotationKey), Len(k)) = <<".">> \o AnnotationKey

\* recipients.GetAnnotationKeys: the keys of annotations the trigger filter matches
GetAnnotationKeys(annotations, trigger) ==
    IF trigger = EmptyStr
    THEN {k \in DOMAIN annotations : IsSubscriptionKey(k)}
    ELSE {k \in DOMAIN annotations : k = AnnotationKeyFor(trigger)}

\* recipients.GetDestinations: the destinations of every recipient of every list
GetDestinations(annotations) ==
    LET keys == {k \in DOMAIN annotations : IsSubscriptionKey(k)}
        parsed == UNION {{ParseDestinationAndTemplate(ParseRecipients(annotations[k])[i]) :
                            i \in 1..Len(ParseRecipients(annotations[k]))} : k \in keys}
    IN  [ok |-> \A p \in parsed : p.ok, dests |-> {p.dest : p \in {x \in parsed : x.ok}}]

(* ------------------------- server.go helpers --------------------------- *)
EmptyMap == [k \in {} |-> EmptyStr]

\* a Go map read: the zero value "" for a missing key
Lookup(m, k) == IF k \in DOMAIN m THEN m[k] ELSE EmptyStr

\* annotations[k] = v
MapSet(m, k, v) == [x \in DOMAIN m \cup {k} |-> IF x = k THEN v ELSE m[x]]

\* Go maps are references. A heap is a sequence of maps and a reference is a
\* position in it, so that a write through one reference is seen through every
\* other reference to the same map.

\* copyStringMap returning its argument instead of a new map
copyStringMapAlias(heap, in) == [heap |-> heap, ref |-> in]

\* copyStringMap on the heap: out := make(map[string]string), filled from in
copyStringMapAt(heap, in) ==
    [heap |-> Append(heap, [k \in DOMAIN heap[in] |-> heap[in][k]]), ref |-> Len(heap) + 1]

\* copyStringMap, from the map passed to the map returned
copyStringMap(in) ==
    LET c == copyStringMapAt(<<in>>, 1)
    IN  c.heap[c.ref]

\* findStringIndex returning 0, not -1, when the item is missing
findStringIndexZero(items, item) ==
    IF \E i \in 1..Len(items) : items[i] = item
    THEN (CHOOSE i \in 1..Len(items) :
            items[i] = item /\ \A j \in 1..(i - 1) : items[j] # item) - 1
    ELSE 0

\* the index of the first item equal to item, counted from 0; -1 when none
findStringIndex(items, item) ==
    IF \E i \in 1..Len(items) : items[i] = item
    THEN (CHOOSE i \in 1..Len(items) :
            items[i] = item /\ \A j \in 1..(i - 1) : items[j] # item) - 1
    ELSE -1

\* addSubscription on the heap: annotations is the reference the caller passes, the
\* result is the heap after the call and the reference returned
addSubscriptionAt(recipient, trigger, heap, annotations) ==
    LET c == copyStringMapAt(heap, annotations)
        annotationKey == AnnotationKeyFor(trigger)
        existingRecipients == ParseRecipients(Lookup(c.heap[c.ref], annotationKey))
    IN  IF findStringIndex(existingRecipients, recipient) < 0
        THEN [heap |-> [c.heap EXCEPT ![c.ref] =
                            MapSet(@, annotationKey,
                                   Join(Append(existingRecipients, recipient), Comma))],
              ref |-> c.ref]
        ELSE c

addSubscription(recipient, trigger, annotations) ==
    LET r == addSubscriptionAt(recipient, trigger, <<annotations>>, 1)
    IN  r.heap[r.ref]

\* the loop body of removeSubscription that never deletes the key
removeFromKeyNoDelete(recipient, annotations, k) ==
    LET existingRecipients == ParseRecipients(annotations[k])
        index == findStringIndex(existingRecipients, recipient)
        newRecipients == SubSeq(existingRecipients, 1, index)
                            \o SubSeq(existingRecipients, index + 2, Len(existingRecipients))
    IN  IF index > -1
        THEN [keep |-> TRUE, val |-> Join(newRecipients, Comma)]
        ELSE [keep |-> TRUE, val |-> annotations[k]]

\* the body of the loop of removeSubscription for one matched key k
removeFromKey(recipient, annotations, k) ==
    LET existingRecipients == ParseRecipients(annotations[k])
        index == findStringIndex(existingRecipients, recipient)
        newRecipients == SubSeq(existingRecipients, 1, index)
                            \o SubSeq(existingRecipients, index + 2, Len(existingRecipients))
    IN  IF index > -1
        THEN IF Len(newRecipients) > 0
             THEN [keep |-> TRUE, val |-> Join(newRecipients, Comma)]
             ELSE [keep |-> FALSE, val |-> EmptyStr]
        ELSE [keep |-> TRUE, val |-> annotations[k]]

\* removeSubscription on the heap: every write and delete goes to the copy
removeSubscriptionAt(recipient, trigger, heap, annotations) ==
    LET c == copyStringMapAt(heap, annotations)
        copy == c.heap[c.ref]
        keys == GetAnnotationKeys(copy, trigger)
        deleted == {k \in keys : ~removeFromKey(recipient, copy, k).keep}
    IN  [heap |-> [c.heap EXCEPT ![c.ref] =
                        [k \in DOMAIN copy \ deleted |->
                            IF k \in keys THEN removeFromKey(recipient, copy, k).val
                            ELSE copy[k]]],
         ref |-> c.ref]

removeSubscription(recipient, trigger, annotations) ==
    LET r == removeSubscriptionAt(recipient, trigger, <<annotations>>, 1)
    IN  r.heap[r.ref]

\* *string: nil or a pointer to a value
NilPtr == [nil |-> TRUE, val |-> EmptyStr]
Ptr(v) == [nil |-> FALSE, val |-> v]

annotationsPatch(old, new) ==
    LET changed == {k \in DOMAIN new : new[k] # Lookup(old, k)}
        removed == {k \in DOMAIN old : k \notin DOMAIN new}
    IN  [k \in changed \cup removed |-> IF k \in removed THEN NilPtr ELSE Ptr(new[k])]

\* the merge patch {"metadata": {"annotations": patch}} applied by the API server
MergePatch(annotations, patch) ==
    LET dropped == {k \in DOMAIN patch : patch[k].nil}
        set == DOMAIN patch \ dropped
    IN  [k \in (DOMAIN annotations \cup set) \ dropped |->
            IF k \in set THEN patch[k].val ELSE annotations[k]]

(* ------------------------------ inputs --------------------------------- *)
\* recipients a command may carry: "", "s:a", "s:a?t" and "a,a"
Recipients ==
    { EmptyStr, <<"s", ":", "a">>, <<"s", ":", "a", "?", "t">>, <<"a", ",", "a">> }

\* the default trigger and one named trigger
Triggers == { EmptyStr, <<"t">> }

\* the recipients of the calls of the pure functions: "a" is one half of "a,a"
PureRecipients == Recipients \cup { <<"a">> }

\* annotation keys of the maps handed to the pure functions: the base key, the key
\* of trigger "t" and a key that is no subscription key
PureKeys == { AnnotationKey, AnnotationKeyFor(<<"t">>), <<"o">> }
PureValues == { EmptyStr, <<"s", ":", "a">> }
PureMaps == UNION {[D -> PureValues] : D \in SUBSET PureKeys}

\* no recipient twice in the decoded list of any subscription key of m
NoDuplicates(m) ==
    \A k \in {x \in DOMAIN m : IsSubscriptionKey(x)} :
        LET l == ParseRecipients(m[k])
        IN  \A i, j \in 1..Len(l) : l[i] = l[j] => i = j

(* --------------------- the pure functions, called ---------------------- *)
VARIABLES
    m,          \* the annotation map the calls work on
    m0,         \* the map the behaviour started from
    last,       \* the last call: its function, arguments and results
    nOps,       \* calls made so far
    onlyAdds    \* every call so far was addSubscription

pureVars == <<m, m0, last, nOps, onlyAdds>>

VARIABLES
    appStore,       \* annotations of every application
    projStore,      \* annotations of every project
    proc,       \* per worker: the command it runs and where it stands
    lastSub,    \* per resource: the Subscribe that completed last with no Patch since
    nCmds       \* commands started so far

serverVars == <<appStore, projStore, proc, lastSub, nCmds>>
vars == <<appStore, projStore, proc, lastSub, nCmds, m, m0, last, nOps, onlyAdds>>

\* the call before the last one: its function, arguments and input map
NoPrev == [op |-> "none", recipient |-> EmptyStr, trigger |-> EmptyStr, old |-> EmptyMap]

PrevOf(call) == [op |-> call.op, recipient |-> call.recipient, trigger |-> call.trigger,
                 old |-> call.old]

NoCall == [op |-> "none", recipient |-> EmptyStr, trigger |-> EmptyStr,
           old |-> EmptyMap, input |-> EmptyMap, new |-> EmptyMap, patch |-> EmptyMap,
           applied |-> EmptyMap, prev |-> NoPrev]

PureStart ==
    /\ m \in PureMaps
    /\ m0 = m
    /\ last = NoCall
    /\ nOps = 0
    /\ onlyAdds = TRUE

\* newAnnotations = addSubscription(...); annotationsPatch(oldAnnotations, newAnnotations);
\* the caller holds reference 1, input is the map behind it when the call has returned
CallAdd(r, t) ==
    /\ nOps < MaxOps
    /\ LET res == addSubscriptionAt(r, t, <<m>>, 1)
           new == res.heap[res.ref]
           patch == annotationsPatch(copyStringMap(m), new)
       IN  /\ last' = [op |-> "add", recipient |-> r, trigger |-> t, old |-> m,
                       input |-> res.heap[1], new |-> new, patch |-> patch,
                       applied |-> MergePatch(m, patch), prev |-> PrevOf(last)]
           /\ m' = new
    /\ nOps' = nOps + 1
    /\ UNCHANGED <<m0, onlyAdds, serverVars>>

\* newAnnotations = removeSubscription(...); annotationsPatch(oldAnnotations, newAnnotations)
CallRemove(r, t) ==
    /\ nOps < MaxOps
    /\ LET res == removeSubscriptionAt(r, t, <<m>>, 1)
           new == res.heap[res.ref]
           patch == annotationsPatch(copyStringMap(m), new)
       IN  /\ last' = [op |-> "remove", recipient |-> r, trigger |-> t, old |-> m,
                       input |-> res.heap[1], new |-> new, patch |-> patch,
                       applied |-> MergePatch(m, patch), prev |-> PrevOf(last)]
           /\ m' = new
    /\ nOps' = nOps + 1
    /\ onlyAdds' = FALSE
    /\ UNCHANGED <<m0, serverVars>>

\* annotationsPatch(m, new) for any map new, and the patch applied to m
CallDiff(new) ==
    /\ nOps < MaxOps
    /\ LET patch == annotationsPatch(m, new)
       IN  last' = [op |-> "diff", recipient |-> EmptyStr, trigger |-> EmptyStr, old |-> m,
                    input |-> m, new |-> new, patch |-> patch,
                    applied |-> MergePatch(m, patch), prev |-> PrevOf(last)]
    /\ nOps' = nOps + 1
    /\ UNCHANGED <<m, m0, onlyAdds, serverVars>>

PureNext ==
    \/ \E r \in PureRecipients, t \in Triggers : CallAdd(r, t)
    \/ \E r \in PureRecipients, t \in Triggers : CallRemove(r, t)
    \/ \E new \in PureMaps : CallDiff(new)

(* ------------------------------ server --------------------------------- *)
Workers == {1, 2}

\* the applications and projects of the namespace, in the order List returns them
Namespace == "ns"
AppOrder == <<"x", "y">>
ProjOrder == <<"p">>
AppNames == {AppOrder[i] : i \in 1..Len(AppOrder)}
ProjNames == {ProjOrder[i] : i \in 1..Len(ProjOrder)}

\* annotations a resource may carry before the first command
InitMapsX ==
    { EmptyMap,
      [k \in {AnnotationKey, AnnotationKeyFor(<<"t">>), <<"o">>} |->
            IF k = <<"o">> THEN <<"v">>
            ELSE IF k = AnnotationKey THEN <<"s", ":", "a">>
            ELSE <<"s", ":", "a", "?", "t">>] }
InitMapsY ==
    { [k \in {AnnotationKey} |-> <<"s", ":", "b">>],
      [k \in {AnnotationKeyFor(<<"t">>)} |-> <<"s", ":", "a">>] }
InitMapsP == { EmptyMap }

\* UpdateSubscription{App, Project, Trigger}; a nil *UpdateSubscription
NilOpts == [nil |-> TRUE, App |-> "", Project |-> "", Trigger |-> EmptyStr]
Opts(app, project, trigger) ==
    [nil |-> FALSE, App |-> app, Project |-> project, Trigger |-> trigger]
\* application "x" and project "p" exist, application "n" does not
OtherTargets == { Opts("n", "", EmptyStr), Opts("", "", EmptyStr), Opts("x", "p", <<"t">>) }

\* the (recipient, options) pairs of the Subscribe and Unsubscribe commands
UpdateInputs ==
    {<<r, Opts("x", "", EmptyStr)>> : r \in Recipients}
    \cup {<<r, Opts("x", "", <<"t">>)>> : r \in {<<"s", ":", "a">>, <<"s", ":", "a", "?", "t">>}}
    \cup {<<r, Opts("", "p", EmptyStr)>> : r \in {<<"s", ":", "a">>, <<"a", ",", "a">>}}
    \cup {<<<<"s", ":", "a">>, o>> : o \in OtherTargets}

\* Command{Recipient, ListSubscriptions, Subscribe, Unsubscribe}
Command(r, list, sub, unsub) ==
    [Recipient |-> r, ListSubscriptions |-> list, Subscribe |-> sub, Unsubscribe |-> unsub]
NoCommand == Command(EmptyStr, FALSE, NilOpts, NilOpts)
Commands ==
    {Command(r, TRUE, NilOpts, NilOpts) : r \in Recipients}
    \cup {Command(i[1], FALSE, i[2], NilOpts) : i \in UpdateInputs}
    \cup {Command(i[1], FALSE, NilOpts, i[2]) : i \in UpdateInputs}
    \cup {NoCommand}
    \cup {Command(<<"s", ":", "a">>, TRUE, Opts("x", "", EmptyStr), NilOpts),
          Command(<<"s", ":", "a">>, FALSE, Opts("x", "", EmptyStr), Opts("x", "", EmptyStr))}

ErrNone == "nil"
ErrUnknownCommand == "unknown command"
ErrMissingTarget == "either application or project name must be specified"
ErrNotFound == "not found"
ErrRemote == "remote failure"
ErrInvalidRecipient == "invalid recipient"

NoText == <<>>
Updated == <<"subscription updated">>

\* the switch of updateSubscription without its default case: the project client
\* is used whenever no application is named
\* the switch of updateSubscription with its first two cases exchanged
selectTargetProjectFirst(opts) ==
    IF opts.Project # "" THEN [ok |-> TRUE, coll |-> "proj", name |-> opts.Project]
    ELSE IF opts.App # "" THEN [ok |-> TRUE, coll |-> "app", name |-> opts.App]
    ELSE [ok |-> FALSE, coll |-> "none", name |-> ""]

selectTargetNoDefault(opts) ==
    IF opts.App # "" THEN [ok |-> TRUE, coll |-> "app", name |-> opts.App]
    ELSE [ok |-> TRUE, coll |-> "proj", name |-> opts.Project]

\* the switch of updateSubscription: the client and the name it selects
selectTarget(opts) ==
    IF opts.App # "" THEN [ok |-> TRUE, coll |-> "app", name |-> opts.App]
    ELSE IF opts.Project # "" THEN [ok |-> TRUE, coll |-> "proj", name |-> opts.Project]
    ELSE [ok |-> FALSE, coll |-> "none", name |-> ""]

\* newAnnotations of updateSubscription
mutate(subscribe, recipient, trigger, annotations) ==
    IF subscribe THEN addSubscription(recipient, trigger, annotations)
    ELSE removeSubscription(recipient, trigger, annotations)

\* the Patch issued without looking at the length of the patch
needsPatchAlways(patch) == TRUE

\* len(annotationsPatch) > 0
needsPatch(patch) == DOMAIN patch # {}

RECURSIVE matching(_, _, _)
\* the names of order, in order, whose destinations contain dest
matching(order, items, dest) ==
    IF order = <<>> THEN <<>>
    ELSE (IF dest \in GetDestinations(items[Head(order)]).dests
          THEN <<<<Namespace, Head(order)>>>> ELSE <<>>)
         \o matching(Tail(order), items, dest)

\* the loop of listSubscriptions skipping the items whose recipients do not parse
scanSkipping(order, items, dest) ==
    [ok |-> TRUE,
     names |-> matching(SelectSeq(order, LAMBDA n : GetDestinations(items[n]).ok), items, dest)]

\* the loop of listSubscriptions reporting the first item only
scanFirstOnly(order, items, dest) ==
    IF \E i \in 1..Len(order) : ~GetDestinations(items[order[i]]).ok
    THEN [ok |-> FALSE, names |-> <<>>]
    ELSE [ok |-> TRUE, names |-> matching(SubSeq(order, 1, 1), items, dest)]

\* one loop of listSubscriptions over the items of a list
scan(order, items, dest) ==
    IF \E i \in 1..Len(order) : ~GetDestinations(items[order[i]]).ok
    THEN [ok |-> FALSE, names |-> <<>>]
    ELSE [ok |-> TRUE, names |-> matching(order, items, dest)]

\* the response text of listSubscriptions, line by line
listResponse(recipient, apps, appProjs) ==
    IF Len(apps) > 0 \/ Len(appProjs) > 0
    THEN <<[line |-> "subscribed", recipient |-> recipient,
            applications |-> Len(apps), projects |-> Len(appProjs)]>>
         \o (IF Len(apps) > 0 THEN <<[line |-> "Applications", names |-> apps]>> ELSE <<>>)
         \o (IF Len(appProjs) > 0 THEN <<[line |-> "Projects", names |-> appProjs]>> ELSE <<>>)
    ELSE <<[line |-> "no subscriptions", recipient |-> recipient]>>

Resources == {<<"app", n>> : n \in AppNames} \cup {<<"proj", n>> : n \in ProjNames}
NoSub == [set |-> FALSE, recipient |-> EmptyStr, trigger |-> EmptyStr]
SubOf(r, t) == [set |-> TRUE, recipient |-> r, trigger |-> t]

Idle ==
    [pc |-> "idle", cmd |-> NoCommand, op |-> "none", subscribe |-> FALSE,
     opts |-> NilOpts, coll |-> "none", name |-> "", fetched |-> FALSE,
     old |-> EmptyMap, new |-> EmptyMap, patch |-> EmptyMap,
     appItems |-> EmptyMap, projItems |-> EmptyMap, apps |-> <<>>,
     err |-> ErrNone, text |-> NoText, calls |-> <<>>]

Collection(coll) == IF coll = "app" THEN appStore ELSE projStore

\* one remote call: the method, the collection, the name, the patch sent, and whether
\* it returned without error
Call(op, coll, name, body, ok) ==
    [op |-> op, coll |-> coll, name |-> name, body |-> body, ok |-> ok]

Fail(p, err) == [p EXCEPT !.pc = "done", !.err = err, !.text = NoText]

ServerInit ==
    /\ appStore \in {[n \in AppNames |-> IF n = "x" THEN a ELSE b] :
                    a \in InitMapsX, b \in InitMapsY}
    /\ projStore \in [ProjNames -> InitMapsP]
    /\ proc = [w \in Workers |-> Idle]
    /\ lastSub = [r \in Resources |-> NoSub]
    /\ nCmds = 0

\* updateSubscription up to the Get: the target is selected
startUpdate(p, subscribe, opts) ==
    LET t == selectTarget(opts)
        q == [p EXCEPT !.op = "update", !.subscribe = subscribe, !.opts = opts]
    IN  IF t.ok
        THEN [q EXCEPT !.pc = "get", !.coll = t.coll, !.name = t.name]
        ELSE Fail(q, ErrMissingTarget)

\* listSubscriptions up to the first List: the recipient is parsed
startList(p) ==
    LET q == [p EXCEPT !.op = "list"]
    IN  IF ParseDestinationAndTemplate(p.cmd.Recipient).ok
        THEN [q EXCEPT !.pc = "listApps"]
        ELSE Fail(q, ErrInvalidRecipient)

\* the switch of execute calling updateSubscription(..., true, ...) in both cases
executeSubscribeOnly(p) ==
    IF p.cmd.ListSubscriptions THEN startList(p)
    ELSE IF ~p.cmd.Subscribe.nil THEN startUpdate(p, TRUE, p.cmd.Subscribe)
    ELSE IF ~p.cmd.Unsubscribe.nil THEN startUpdate(p, TRUE, p.cmd.Unsubscribe)
    ELSE Fail(p, ErrUnknownCommand)

\* the switch of execute
execute(p) ==
    IF p.cmd.ListSubscriptions THEN startList(p)
    ELSE IF ~p.cmd.Subscribe.nil THEN startUpdate(p, TRUE, p.cmd.Subscribe)
    ELSE IF ~p.cmd.Unsubscribe.nil THEN startUpdate(p, FALSE, p.cmd.Unsubscribe)
    ELSE Fail(p, ErrUnknownCommand)

\* handler: a request arrives at a worker that serves none, and is executed up to
\* its first remote call. Workers are interchangeable: worker 1 serves the first
\* request.
Execute(w, c) ==
    /\ proc[w].pc \in {"idle", "done"}
    /\ w = 1 \/ proc[1].pc # "idle"
    /\ nCmds < MaxCmds
    /\ nCmds' = nCmds + 1
    /\ proc' = [proc EXCEPT ![w] = execute([Idle EXCEPT !.cmd = c])]
    /\ UNCHANGED <<appStore, projStore, lastSub, pureVars>>

\* client.Get called a second time after its first failure
GetFailsRetry(w) ==
    /\ proc[w].pc = "get"
    /\ \E err \in {ErrNotFound, ErrRemote} :
        /\ err = ErrNotFound => proc[w].name \notin DOMAIN Collection(proc[w].coll)
        /\ LET q == [proc[w] EXCEPT !.calls = Append(@, Call("Get", proc[w].coll,
                                                            proc[w].name, EmptyMap, FALSE))]
           IN  proc' = [proc EXCEPT ![w] = IF proc[w].calls = <<>> THEN q ELSE Fail(q, err)]
    /\ UNCHANGED <<appStore, projStore, lastSub, nCmds, pureVars>>

\* client.Get fails: the object does not exist, or the API server fails
GetFails(w) ==
    /\ proc[w].pc = "get"
    /\ \E err \in {ErrNotFound, ErrRemote} :
        /\ err = ErrNotFound => proc[w].name \notin DOMAIN Collection(proc[w].coll)
        /\ proc' = [proc EXCEPT ![w] =
                Fail([@ EXCEPT !.calls = Append(@, Call("Get", proc[w].coll, proc[w].name,
                                                        EmptyMap, FALSE))], err)]
    /\ UNCHANGED <<appStore, projStore, lastSub, nCmds, pureVars>>

\* updateSubscription from a successful Get to the Patch, or to the end when the
\* patch is empty
afterGet(p, annotations) ==
    LET old == copyStringMap(annotations)
        new == mutate(p.subscribe, p.cmd.Recipient, p.opts.Trigger, annotations)
        patch == annotationsPatch(old, new)
        q == [p EXCEPT !.fetched = TRUE, !.old = old, !.new = new, !.patch = patch,
                       !.calls = Append(@, Call("Get", p.coll, p.name, EmptyMap, TRUE))]
    IN  IF needsPatch(patch)
        THEN [q EXCEPT !.pc = "patch"]
        ELSE [q EXCEPT !.pc = "done", !.err = ErrNone, !.text = Updated]

Get(w) ==
    /\ proc[w].pc = "get"
    /\ proc[w].name \in DOMAIN Collection(proc[w].coll)
    /\ LET q == afterGet(proc[w], Collection(proc[w].coll)[proc[w].name])
           res == <<proc[w].coll, proc[w].name>>
       IN  /\ proc' = [proc EXCEPT ![w] = q]
           /\ lastSub' = IF q.pc = "done" /\ q.subscribe
                         THEN [lastSub EXCEPT ![res] = SubOf(q.cmd.Recipient, q.opts.Trigger)]
                         ELSE lastSub
    /\ UNCHANGED <<appStore, projStore, nCmds, pureVars>>

PatchFails(w) ==
    /\ proc[w].pc = "patch"
    /\ proc' = [proc EXCEPT ![w] =
            Fail([@ EXCEPT !.calls = Append(@, Call("Patch", proc[w].coll, proc[w].name,
                                                    proc[w].patch, FALSE))], ErrRemote)]
    /\ UNCHANGED <<appStore, projStore, lastSub, nCmds, pureVars>>

\* the Patch sent through s.appClient whatever client the switch selected
PatchAppClient(w) ==
    /\ proc[w].pc = "patch"
    /\ LET p == proc[w]
       IN  IF p.name \in DOMAIN appStore
           THEN /\ appStore' = [appStore EXCEPT ![p.name] = MergePatch(@, p.patch)]
                /\ proc' = [proc EXCEPT ![w] =
                        [@ EXCEPT !.pc = "done", !.err = ErrNone, !.text = Updated,
                                  !.calls = Append(@, Call("Patch", "app", p.name,
                                                           p.patch, TRUE))]]
                /\ lastSub' = [lastSub EXCEPT ![<<"app", p.name>>] =
                        IF p.subscribe THEN SubOf(p.cmd.Recipient, p.opts.Trigger)
                        ELSE NoSub]
           ELSE /\ proc' = [proc EXCEPT ![w] =
                        Fail([@ EXCEPT !.calls = Append(@, Call("Patch", "app", p.name,
                                                                p.patch, FALSE))],
                             ErrNotFound)]
                /\ UNCHANGED <<appStore, lastSub>>
    /\ UNCHANGED <<projStore, nCmds, pureVars>>

Patch(w) ==
    /\ proc[w].pc = "patch"
    /\ LET p == proc[w]
           res == <<p.coll, p.name>>
       IN  /\ p.name \in DOMAIN Collection(p.coll)
           /\ IF p.coll = "app"
              THEN /\ appStore' = [appStore EXCEPT ![p.name] = MergePatch(@, p.patch)]
                   /\ UNCHANGED projStore
              ELSE /\ projStore' = [projStore EXCEPT ![p.name] = MergePatch(@, p.patch)]
                   /\ UNCHANGED appStore
           /\ proc' = [proc EXCEPT ![w] =
                    [@ EXCEPT !.pc = "done", !.err = ErrNone, !.text = Updated,
                              !.calls = Append(@, Call("Patch", p.coll, p.name, p.patch, TRUE))]]
           /\ lastSub' = [lastSub EXCEPT ![res] =
                    IF p.subscribe THEN SubOf(p.cmd.Recipient, p.opts.Trigger) ELSE NoSub]
    /\ UNCHANGED <<nCmds, pureVars>>

ListAppsFails(w) ==
    /\ proc[w].pc = "listApps"
    /\ proc' = [proc EXCEPT ![w] =
            Fail([@ EXCEPT !.calls = Append(@, Call("List", "app", "", EmptyMap, FALSE))],
                 ErrRemote)]
    /\ UNCHANGED <<appStore, projStore, lastSub, nCmds, pureVars>>

\* listSubscriptions from the List of the applications to the List of the projects
afterListApps(p, items) ==
    LET dest == ParseDestinationAndTemplate(p.cmd.Recipient).dest
        found == scan(AppOrder, items, dest)
        q == [p EXCEPT !.appItems = items,
                       !.calls = Append(@, Call("List", "app", "", EmptyMap, TRUE))]
    IN  IF found.ok
        THEN [q EXCEPT !.pc = "listProjs", !.apps = found.names]
        ELSE Fail(q, ErrInvalidRecipient)

ListApps(w) ==
    /\ proc[w].pc = "listApps"
    /\ proc' = [proc EXCEPT ![w] = afterListApps(@, appStore)]
    /\ UNCHANGED <<appStore, projStore, lastSub, nCmds, pureVars>>

ListProjsFails(w) ==
    /\ proc[w].pc = "listProjs"
    /\ proc' = [proc EXCEPT ![w] =
            Fail([@ EXCEPT !.calls = Append(@, Call("List", "proj", "", EmptyMap, FALSE))],
                 ErrRemote)]
    /\ UNCHANGED <<appStore, projStore, lastSub, nCmds, pureVars>>

\* listSubscriptions from the List of the projects to the response
afterListProjs(p, items) ==
    LET dest == ParseDestinationAndTemplate(p.cmd.Recipient).dest
        found == scan(ProjOrder, items, dest)
        q == [p EXCEPT !.projItems = items,
                       !.calls = Append(@, Call("List", "proj", "", EmptyMap, TRUE))]
    IN  IF found.ok
        THEN [q EXCEPT !.pc = "done", !.err = ErrNone,
                       !.text = listResponse(p.cmd.Recipient, p.apps, found.names)]
        ELSE Fail(q, ErrInvalidRecipient)

ListProjs(w) ==
    /\ proc[w].pc = "listProjs"
    /\ proc' = [proc EXCEPT ![w] = afterListProjs(@, projStore)]
    /\ UNCHANGED <<appStore, projStore, lastSub, nCmds, pureVars>>

Next ==
    \/ \E w \in Workers, c \in Commands : Execute(w, c)
    \/ \E w \in Workers : GetFails(w)
    \/ \E w \in Workers : Get(w)
    \/ \E w \in Workers : PatchFails(w)
    \/ \E w \in Workers : Patch(w)
    \/ \E w \in Workers : ListAppsFails(w)
    \/ \E w \in Workers : ListApps(w)
    \/ \E w \in Workers : ListProjsFails(w)
    \/ \E w \in Workers : ListProjs(w)

Init ==
    /\ ServerInit
    /\ m = EmptyMap /\ m0 = EmptyMap /\ last = NoCall /\ nOps = 0 /\ onlyAdds = TRUE

Spec == Init /\ [][Next]_vars

\* the pure functions alone: no command is executed
PureInit ==
    /\ PureStart
    /\ appStore = [n \in AppNames |-> EmptyMap]
    /\ projStore = [n \in ProjNames |-> EmptyMap]
    /\ proc = [w \in Workers |-> Idle]
    /\ lastSub = [r \in Resources |-> NoSub]
    /\ nCmds = 0

PureSpec == PureInit /\ [][PureNext]_vars

(* ------------------------------ claims --------------------------------- *)
\* the recipient r is in the decoded list of the value v
InList(r, v) == \E i \in 1..Len(ParseRecipients(v)) : ParseRecipients(v)[i] = r

\* C3 (as claimed): from a map without duplicates, after addSubscription calls only,
\* no decoded recipient list holds a recipient twice.
C3_NoDuplicatesAfterAdds == (onlyAdds /\ NoDuplicates(m0)) => NoDuplicates(m)

\* C4 (as claimed): from the empty map, after addSubscription and removeSubscription
\* calls, no subscription key is present with the empty string as its value.
C4_NoEmptyValue ==
    m0 = EmptyMap => \A k \in DOMAIN m : IsSubscriptionKey(k) => m[k] # EmptyStr

\* C5 (as claimed): a key is in annotationsPatch(old, new) exactly when it is in one
\* map only or in both with different values; a key of new carries new's value, a key
\* of old alone carries nil; the patch of a map against itself is empty.
C5_DiffExact ==
    last.op # "none" =>
        LET old == last.old
            new == last.new
            patch == last.patch
        IN  /\ DOMAIN patch \subseteq DOMAIN old \cup DOMAIN new
            /\ \A k \in DOMAIN old \cup DOMAIN new :
                    k \in DOMAIN patch <=>
                        \/ (k \in DOMAIN old) # (k \in DOMAIN new)
                        \/ k \in DOMAIN old /\ k \in DOMAIN new /\ old[k] # new[k]
            /\ \A k \in DOMAIN patch :
                    patch[k] = IF k \in DOMAIN new THEN Ptr(new[k]) ELSE NilPtr
            /\ old = new => DOMAIN patch = {}

\* the worker ran updateSubscription and its Get returned the object
Fetched(p) == p.op = "update" /\ p.fetched

\* the Patch calls of a command
PatchCalls(p) == {i \in 1..Len(p.calls) : p.calls[i].op = "Patch"}

\* the annotations of the resource a command targets
Target(p) == Collection(p.coll)[p.name]

\* C1 (as claimed): a Subscribe that follows a successful Subscribe of the same
\* recipient, resource and trigger, with no Patch in between, computes an empty
\* patch, issues no Patch and leaves the annotations as they were.
C1_SubscribeTwice ==
    [][\A w \in Workers :
        LET p == proc[w]
            q == proc'[w]
        IN  (/\ p.pc = "get" /\ p.subscribe /\ q.fetched
             /\ <<p.coll, p.name>> \in Resources
             /\ lastSub[<<p.coll, p.name>>] = SubOf(p.cmd.Recipient, p.opts.Trigger))
            => /\ DOMAIN q.patch = {}
               /\ q.pc = "done" /\ q.err = ErrNone
               /\ appStore' = appStore /\ projStore' = projStore]_vars

\* r occurs in the decoded list of no key of annotations the trigger filter matches
RecipientAbsent(r, t, annotations) ==
    \A k \in GetAnnotationKeys(annotations, t) : ~InList(r, annotations[k])

\* C2: an Unsubscribe whose recipient is in no matched list returns the fetched map,
\* computes an empty patch and ends with success without a Patch.
C2_UnsubscribeAbsent ==
    \A w \in Workers :
        LET p == proc[w]
        IN  (Fetched(p) /\ ~p.subscribe /\ RecipientAbsent(p.cmd.Recipient, p.opts.Trigger, p.old))
            => /\ p.new = p.old
               /\ DOMAIN p.patch = {}
               /\ DOMAIN annotationsPatch(p.old, p.new) = {}
               /\ p.pc = "done" /\ p.err = ErrNone /\ p.text = Updated
               /\ PatchCalls(p) = {}

\* C2 witness: an Unsubscribe ended on a resource that has matched lists, none of
\* which holds the recipient
C2_Witness ==
    \E w \in Workers :
        LET p == proc[w]
        IN  /\ Fetched(p) /\ ~p.subscribe /\ p.pc = "done"
            /\ RecipientAbsent(p.cmd.Recipient, p.opts.Trigger, p.old)
            /\ \E k \in GetAnnotationKeys(p.old, p.opts.Trigger) : p.old[k] # EmptyStr

\* a recipient that parses and holds no comma
WellFormed(r) ==
    ParseDestinationAndTemplate(r).ok /\ \A i \in 1..Len(r) : r[i] # Comma

\* C6 (as claimed): two successful Subscribe commands of two distinct recipients on
\* the same resource and trigger leave both recipients in the list, however their
\* Get and Patch steps interleave. Stated for well-formed recipients.
C6_NoLostUpdate ==
    \A v, w \in Workers :
        LET p == proc[v]
            q == proc[w]
        IN  (/\ v # w
             /\ Fetched(p) /\ p.subscribe /\ p.pc = "done" /\ p.err = ErrNone
             /\ Fetched(q) /\ q.subscribe /\ q.pc = "done" /\ q.err = ErrNone
             /\ p.coll = q.coll /\ p.name = q.name /\ p.opts.Trigger = q.opts.Trigger
             /\ p.cmd.Recipient # q.cmd.Recipient
             /\ WellFormed(p.cmd.Recipient) /\ WellFormed(q.cmd.Recipient))
            => LET value == Lookup(Target(p), AnnotationKeyFor(p.opts.Trigger))
               IN  InList(p.cmd.Recipient, value) /\ InList(q.cmd.Recipient, value)

\* C7: updateSubscription with neither an application nor a project name ends with
\* the missing-target error and no remote call.
C7_MissingTarget ==
    \A w \in Workers :
        LET p == proc[w]
        IN  (p.op = "update" /\ p.opts.App = "" /\ p.opts.Project = "")
            => /\ p.pc = "done"
               /\ p.err = ErrMissingTarget /\ p.text = NoText
               /\ p.calls = <<>>

C7_Witness ==
    \E w \in Workers :
        /\ proc[w].op = "update" /\ proc[w].pc = "done"
        /\ proc[w].opts.App = "" /\ proc[w].opts.Project = ""
        /\ proc[w].err = ErrMissingTarget

Subscribed(annotations, dest) ==
    \E k \in DOMAIN annotations :
        /\ IsSubscriptionKey(k)
        /\ \E i \in 1..Len(ParseRecipients(annotations[k])) :
            LET r == ParseDestinationAndTemplate(ParseRecipients(annotations[k])[i])
            IN  r.ok /\ r.dest = dest

\* a recipient of a list of an item does not parse
Malformed(items) ==
    \E n \in DOMAIN items : \E k \in DOMAIN items[n] :
        /\ IsSubscriptionKey(k)
        /\ \E i \in 1..Len(ParseRecipients(items[n][k])) :
            ~ParseDestinationAndTemplate(ParseRecipients(items[n][k])[i]).ok

\* the names a response lists on its line of the given kind
Listed(text, kind) ==
    UNION {{text[i].names[j] : j \in 1..Len(text[i].names)} :
                i \in {x \in 1..Len(text) : text[x].line = kind}}

\* a command ran listSubscriptions and both List calls returned
ListedBoth(p) ==
    /\ p.op = "list" /\ p.pc = "done"
    /\ Len(p.calls) = 2 /\ p.calls[1].ok /\ p.calls[2].ok

\* C9: when both lists are returned and every scanned recipient parses,
\* listSubscriptions succeeds and reports exactly the applications and the projects
\* whose destinations hold the recipient's destination, by namespace and name, with
\* their numbers; the text is the no-subscriptions text exactly when there are none.
C9_ListingCorrect ==
    \A w \in Workers :
        LET p == proc[w]
            dest == ParseDestinationAndTemplate(p.cmd.Recipient).dest
            hitApps == {n \in AppNames : Subscribed(p.appItems[n], dest)}
            hitProjs == {n \in ProjNames : Subscribed(p.projItems[n], dest)}
        IN  /\ (ListedBoth(p) /\ ~Malformed(p.appItems) /\ ~Malformed(p.projItems))
                    => p.err = ErrNone
            /\ (p.op = "list" /\ p.pc = "done" /\ p.err = ErrNone) =>
                /\ ListedBoth(p)
                /\ Listed(p.text, "Applications") = {<<Namespace, n>> : n \in hitApps}
                /\ Listed(p.text, "Projects") = {<<Namespace, n>> : n \in hitProjs}
                /\ (hitApps = {} /\ hitProjs = {})
                        <=> p.text = <<[line |-> "no subscriptions",
                                       recipient |-> p.cmd.Recipient]>>
                /\ (hitApps # {} \/ hitProjs # {}) =>
                        /\ p.text[1].line = "subscribed"
                        /\ p.text[1].applications = Cardinality(hitApps)
                        /\ p.text[1].projects = Cardinality(hitProjs)
                        /\ \A i \in 2..Len(p.text) :
                                Len(p.text[i].names) = Cardinality(Listed(p.text, p.text[i].line))

\* C9 witness: of two applications and one project, one application alone is
\* subscribed, and the response reports 1 application and 0 projects
C9_Witness ==
    \E w \in Workers :
        LET p == proc[w]
        IN  /\ p.op = "list" /\ p.pc = "done" /\ p.err = ErrNone
            /\ Len(p.text) = 2
            /\ p.text[1].line = "subscribed"
            /\ p.text[1].applications = 1 /\ p.text[1].projects = 0
            /\ p.text[2] = [line |-> "Applications", names |-> <<<<Namespace, "x">>>>]

\* C10: when a list that was returned holds an item with a recipient that does not
\* parse, listSubscriptions ends with the parse error and no response text.
C10_ListingAborts ==
    \A w \in Workers :
        LET p == proc[w]
        IN  (p.op = "list" /\ (Malformed(p.appItems) \/ Malformed(p.projItems)))
            => /\ p.pc = "done"
               /\ p.err = ErrInvalidRecipient
               /\ p.text = NoText

\* C10 witness: the listing found a subscribed application, then met a project with
\* a recipient that does not parse, and ended with the error
C10_Witness ==
    \E w \in Workers :
        LET p == proc[w]
        IN  /\ p.op = "list" /\ p.pc = "done"
            /\ p.apps # <<>>
            /\ Malformed(p.projItems)
            /\ p.err = ErrInvalidRecipient


(* ------------------- the pure functions, second part -------------------- *)
\* C14: addSubscription and removeSubscription leave the map behind the caller's
\* reference as it was before the call: same keys, same values.
C14_InputUnchanged == last.op \in {"add", "remove"} => last.input = last.old

\* a call that returned a map differing from the one it was given
C14_Witness ==
    /\ last.op = "remove"
    /\ last.new # last.old
    /\ last.input = last.old

\* C15 (as claimed): annotationsPatch(old, new) applied to old as a merge patch
\* yields new.
C15_DiffRoundTrip == last.op # "none" => last.applied = last.new

\* the keys the trigger filter matches: every subscription key when the trigger is
\* empty, else only "<trigger>.<base>"
Matches(k, trigger) ==
    IF trigger = EmptyStr
    THEN \/ k = <<"K">>
         \/ Len(k) > 2 /\ SubSeq(k, Len(k) - 1, Len(k)) = <<".", "K">>
    ELSE k = trigger \o <<".", "K">>

\* the list without its first element equal to r
WithoutFirst(list, r) ==
    LET i == CHOOSE n \in 1..Len(list) : list[n] = r /\ \A j \in 1..(n - 1) : list[j] # r
    IN  [n \in 1..(Len(list) - 1) |-> IF n < i THEN list[n] ELSE list[n + 1]]

\* C16: removeSubscription removes from every matched key whose list holds the
\* recipient its first occurrence only, keeps the rest in order, deletes the key when
\* nothing remains, and leaves every other key as it was.
C16_RemovePostcondition ==
    last.op = "remove" =>
        /\ DOMAIN last.new \subseteq DOMAIN last.old
        /\ \A k \in DOMAIN last.old :
              IF Matches(k, last.trigger) /\ InList(last.recipient, last.old[k])
              THEN LET rest == WithoutFirst(ParseRecipients(last.old[k]), last.recipient)
                   IN  IF rest = <<>>
                       THEN k \notin DOMAIN last.new
                       ELSE k \in DOMAIN last.new /\ last.new[k] = Join(rest, Comma)
              ELSE k \in DOMAIN last.new /\ last.new[k] = last.old[k]

\* a removal from a list that holds the recipient twice
C16_Witness ==
    /\ last.op = "remove"
    /\ \E k \in DOMAIN last.old :
          /\ Matches(k, last.trigger)
          /\ InList(last.recipient, last.old[k])
          /\ k \in DOMAIN last.new
          /\ InList(last.recipient, last.new[k])

\* C17: addSubscription changes at most the key of the trigger: the recipient is
\* appended to that key's list when the list does not hold it, the map is returned
\* as it was when it does, and every other key keeps its value.
C17_AddPostcondition ==
    last.op = "add" =>
        LET key == IF last.trigger = EmptyStr THEN <<"K">>
                   ELSE last.trigger \o <<".", "K">>
            list == ParseRecipients(Lookup(last.old, key))
        IN  /\ \A k \in (DOMAIN last.old \cup DOMAIN last.new) \ {key} :
                  k \in DOMAIN last.old /\ k \in DOMAIN last.new /\ last.new[k] = last.old[k]
            /\ IF InList(last.recipient, Lookup(last.old, key))
               THEN last.new = last.old
               ELSE /\ key \in DOMAIN last.new
                    /\ last.new[key] = Join(Append(list, last.recipient), Comma)

\* an addition under a trigger to a list that holds another recipient
C17_Witness ==
    /\ last.op = "add"
    /\ last.trigger # EmptyStr
    /\ last.trigger \o <<".", "K">> \in DOMAIN last.old
    /\ last.old[last.trigger \o <<".", "K">>] # EmptyStr
    /\ ~InList(last.recipient, last.old[last.trigger \o <<".", "K">>])
    /\ last.new # last.old
    /\ \E k \in DOMAIN last.old : k # last.trigger \o <<".", "K">>

\* the recipient is in no subscription list of the map, and no list of it is empty
Unsubscribed(r, annotations) ==
    \A k \in DOMAIN annotations :
        IsSubscriptionKey(k) => annotations[k] # EmptyStr /\ ~InList(r, annotations[k])

\* C18 (as claimed): for a recipient in no subscription list of a map,
\* removeSubscription(r, t, addSubscription(r, t, map)) is the map.
C18_AddThenRemove ==
    ( /\ last.op = "remove"
      /\ last.prev.op = "add"
      /\ last.prev.recipient = last.recipient
      /\ last.prev.trigger = last.trigger
      /\ Unsubscribed(last.recipient, last.prev.old) )
    => last.new = last.prev.old

(* ------------------------- the server, second part ---------------------- *)
\* the annotations of a resource in the two collections a and p
AnnotationsOf(a, p, res) == IF res[1] = "app" THEN a[res[2]] ELSE p[res[2]]

\* C11: a step of a Subscribe or Unsubscribe command changes the annotations of no
\* resource but the one it names in the collection it selected, and its calls are Get
\* and Patch on that resource only; a step of a ListSubscriptions command changes no
\* annotations and its calls are List calls only.
C11_SingleTargetFrame ==
    [][\A w \in Workers :
          LET q == proc'[w]
          IN  /\ q # proc[w] =>
                    \A res \in Resources :
                        AnnotationsOf(appStore', projStore', res)
                                # AnnotationsOf(appStore, projStore, res)
                        => q.op = "update" /\ res = <<q.coll, q.name>>
              /\ \A i \in 1..Len(q.calls) :
                    /\ q.op = "update" =>
                            /\ q.calls[i].op \in {"Get", "Patch"}
                            /\ q.calls[i].coll = q.coll /\ q.calls[i].name = q.name
                    /\ q.op = "list" => q.calls[i].op = "List"]_vars

\* a project was patched while application y holds annotations
C11_Witness ==
    \E w \in Workers :
        /\ proc[w].op = "update" /\ proc[w].pc = "done" /\ proc[w].err = ErrNone
        /\ proc[w].coll = "proj"
        /\ PatchCalls(proc[w]) # {}
        /\ projStore[proc[w].name] = proc[w].new
        /\ appStore["y"] # EmptyMap

\* C12: a Subscribe or Unsubscribe command calls Get at most once and then Patch at
\* most once, Patch only after a Get of the same resource that succeeded; after a
\* call that failed the command has ended with an error, with no call after it and
\* without the text 'subscription updated'.
C12_NoRetry ==
    \A w \in Workers :
        LET p == proc[w]
        IN  p.op = "update" =>
            /\ Len(p.calls) <= 2
            /\ Len(p.calls) >= 1 => p.calls[1].op = "Get"
            /\ Len(p.calls) = 2 =>
                    /\ p.calls[2].op = "Patch"
                    /\ p.calls[1].ok
                    /\ p.calls[2].coll = p.calls[1].coll /\ p.calls[2].name = p.calls[1].name
            /\ \A i \in 1..Len(p.calls) :
                    ~p.calls[i].ok =>
                        /\ i = Len(p.calls)
                        /\ p.pc = "done"
                        /\ p.err \in {ErrNotFound, ErrRemote}
                        /\ p.text = NoText

\* one command ended on a Get that failed, another on a Patch that failed
C12_Witness ==
    \E v, w \in Workers :
        /\ proc[v].op = "update" /\ proc[v].pc = "done"
        /\ Len(proc[v].calls) = 1 /\ ~proc[v].calls[1].ok /\ proc[v].err = ErrNotFound
        /\ proc[w].op = "update" /\ proc[w].pc = "done"
        /\ Len(proc[w].calls) = 2 /\ ~proc[w].calls[2].ok /\ proc[w].err = ErrRemote

\* the calls of a command are calls of the methods ops
CallsWithin(p, ops) == \A i \in 1..Len(p.calls) : p.calls[i].op \in ops

\* C13: a command with no variant set ends with the 'unknown command' error and no
\* remote call; a command with exactly one variant set runs the operation of that
\* variant and no other.
C13_Dispatch ==
    \A w \in Workers :
        LET p == proc[w]
            c == p.cmd
        IN  p.pc # "idle" =>
            /\ (~c.ListSubscriptions /\ c.Subscribe.nil /\ c.Unsubscribe.nil) =>
                    /\ p.pc = "done" /\ p.err = ErrUnknownCommand /\ p.text = NoText
                    /\ p.op = "none" /\ p.calls = <<>>
            /\ (c.ListSubscriptions /\ c.Subscribe.nil /\ c.Unsubscribe.nil) =>
                    /\ p.op = "list" /\ CallsWithin(p, {"List"})
            /\ (~c.ListSubscriptions /\ ~c.Subscribe.nil /\ c.Unsubscribe.nil) =>
                    /\ p.op = "update" /\ p.subscribe /\ p.opts = c.Subscribe
                    /\ CallsWithin(p, {"Get", "Patch"})
                    /\ p.fetched =>
                            p.new = addSubscription(c.Recipient, p.opts.Trigger, p.old)
            /\ (~c.ListSubscriptions /\ c.Subscribe.nil /\ ~c.Unsubscribe.nil) =>
                    /\ p.op = "update" /\ ~p.subscribe /\ p.opts = c.Unsubscribe
                    /\ CallsWithin(p, {"Get", "Patch"})
                    /\ p.fetched =>
                            p.new = removeSubscription(c.Recipient, p.opts.Trigger, p.old)

\* a command with no variant set was executed, and an Unsubscribe has fetched
C13_Witness ==
    \E v, w \in Workers :
        /\ proc[v].pc = "done" /\ proc[v].cmd = NoCommand
        /\ proc[v].err = ErrUnknownCommand
        /\ proc[w].op = "update" /\ proc[w].fetched
        /\ proc[w].cmd.Subscribe.nil /\ ~proc[w].cmd.Unsubscribe.nil

\* C19 (as claimed): after two Subscribe commands on one resource with two different
\* triggers have both succeeded, the annotations of the resource hold both
\* subscriptions.
C19_DisjointKeys ==
    \A v, w \in Workers :
        LET p == proc[v]
            q == proc[w]
        IN  ( /\ v # w
              /\ p.op = "update" /\ p.subscribe /\ p.pc = "done" /\ p.err = ErrNone
              /\ q.op = "update" /\ q.subscribe /\ q.pc = "done" /\ q.err = ErrNone
              /\ p.coll = q.coll /\ p.name = q.name
              /\ p.opts.Trigger # q.opts.Trigger )
            => /\ InList(p.cmd.Recipient,
                         Lookup(Target(p), AnnotationKeyFor(p.opts.Trigger)))
               /\ InList(q.cmd.Recipient,
                         Lookup(Target(q), AnnotationKeyFor(q.opts.Trigger)))

\* C20: updateSubscription selects the applications whenever the application name
\* is not empty, the projects when only the project name is not empty, and every
\* call of the command goes to the collection selected, none to the other one.
C20_TargetSelection ==
    \A w \in Workers :
        LET p == proc[w]
        IN  p.op = "update" =>
            /\ p.opts.App # "" => p.coll = "app" /\ p.name = p.opts.App
            /\ (p.opts.App = "" /\ p.opts.Project # "") =>
                    p.coll = "proj" /\ p.name = p.opts.Project
            /\ \A i \in 1..Len(p.calls) : p.calls[i].coll = p.coll

\* a command naming an application and a project has patched the application
C20_Witness ==
    \E w \in Workers :
        /\ proc[w].op = "update" /\ proc[w].pc = "done" /\ proc[w].err = ErrNone
        /\ proc[w].opts.App # "" /\ proc[w].opts.Project # ""
        /\ Len(proc[w].calls) = 2
        /\ proc[w].calls[1].coll = "app" /\ proc[w].calls[2].coll = "app"
        /\ proc[w].calls[2].ok

====
